---- MODULE Spec2Model ----
(***************************************************************************)
(* A model of app/report.py: compare_snapshots and the per-kind            *)
(* classifiers (is_failed_cronjob, is_failed_deployment,                   *)
(* is_failed_statefulset, is_failed_pod), with the wall clock that         *)
(* is_failed_cronjob reads through get_current_datetime.                   *)
(*                                                                         *)
(* Representation.                                                         *)
(*  - A Python dict is a function whose DOMAIN is its set of keys; a key   *)
(*    whose value is None is left out of the DOMAIN (dict.get and the      *)
(*    truth tests of the code do not tell the two apart).                  *)
(*  - A timestamp string is a record [wf, t]: wf says whether the ISO 8601 *)
(*    parser accepts it, t is the instant it denotes, in seconds since     *)
(*    1970-01-01T00:00:00Z.                                                *)
(*  - A duration (datetime.timedelta) is a number of seconds.              *)
(*  - A raised exception is the name of its class; "" is no exception.     *)
(***************************************************************************)
EXTENDS Integers, Sequences, FiniteSets, TLC

VARIABLES
    current,    \* compare_snapshots' argument `current`
    previous,   \* compare_snapshots' argument `previous`
    clock,      \* the wall clock, in whole seconds (get_current_datetime)
    ticks,      \* how often the clock has advanced since the call began
    pc,         \* position in compare_snapshots
    todo,       \* names the running compare_resource loop has yet to visit
    data,       \* compare_snapshots' local `data`, the result being built
    err,        \* the exception that ended the call, "" if none
    calls       \* history: the classifier calls made so far, by <<kind, name>>

vars == <<current, previous, clock, ticks, pc, todo, data, err, calls>>

----------------------------------------------------------------------------
(* Bounds and units *)

\* How many seconds the clock may advance during one comparison.
MaxTick == 1

SecondsPerDay == 24 * 60 * 60
SecondsPerHour == 60 * 60

\* grace_period = datetime.timedelta(days=7)
ScheduleGraceDays == 7
\* grace_period = datetime.timedelta(days=1)
SuccessGraceDays == 1

----------------------------------------------------------------------------
(* Python dicts *)

EmptyDict == [k \in {} |-> ""]

Get(d, k, default) == IF k \in DOMAIN d THEN d[k] ELSE default

Put(d, k, v) == [x \in DOMAIN d \cup {k} |-> IF x = k THEN v ELSE d[x]]

----------------------------------------------------------------------------
(* Timestamps, durations, cron expressions *)

Iso(t) == [wf |-> TRUE, t |-> t]
BadIso == [wf |-> FALSE, t |-> 0]

\* get_current_datetime(): the clock, already in whole seconds.
get_current_datetime(clk) == clk

Abs(n) == IF n < 0 THEN 0 - n ELSE n

Plural(n, unit) == ToString(n) \o " " \o unit

\* humanize.naturaldelta on a duration of less than a year.
naturaldelta(seconds) ==
    LET a == Abs(seconds)
        days == a \div SecondsPerDay
        secs == a % SecondsPerDay
        num_months == (2 * days) \div 61
    IN  IF days = 0
        THEN IF secs = 0 THEN "a moment"
             ELSE IF secs = 1 THEN "a second"
             ELSE IF secs < 60 THEN Plural(secs, "seconds")
             ELSE IF secs < 120 THEN "a minute"
             ELSE IF secs < SecondsPerHour THEN Plural(secs \div 60, "minutes")
             ELSE IF secs < 2 * SecondsPerHour THEN "an hour"
             ELSE Plural(secs \div SecondsPerHour, "hours")
        ELSE IF days = 1 THEN "a day"
             ELSE IF num_months = 0 THEN Plural(days, "days")
             ELSE IF num_months = 1 THEN "a month"
             ELSE Plural(num_months, "months")

\* The cron expressions of the model.  January 1970: the 1st is a Thursday,
\* so Sundays are the days 3, 10, 17, 24 after the epoch; the horizon of the
\* model lies in January and February 1970.
CronHourly == "0 * * * *"
CronWeekly == "0 0 * * 0"
CronMonthly == "0 0 1 * *"
CronBad == "every day"

CronExprs == {CronHourly, CronWeekly, CronMonthly}

\* croniter.croniter(expr, now) accepts the expression.
croniter_ok(expr) == expr \in CronExprs

\* croniter.croniter(expr, now).get_prev(): the latest fire time strictly
\* before `now`.
get_prev(expr, now) ==
    IF expr = CronHourly
    THEN ((now - 1) \div SecondsPerHour) * SecondsPerHour
    ELSE IF expr = CronWeekly
    THEN LET off == 3 * SecondsPerDay
             week == 7 * SecondsPerDay
         IN  (((now - 1 - off) \div week) * week) + off
    ELSE IF now > 31 * SecondsPerDay THEN 31 * SecondsPerDay ELSE 0

----------------------------------------------------------------------------
(* The classifiers.  Each returns [exc, reason, reads]: the exception it   *)
(* raised ("" if it returned), the string it returned, and the clock       *)
(* values it read, in order.                                               *)

Return(reason, reads) == [exc |-> "", reason |-> reason, reads |-> reads]
Raise(exc, reads) == [exc |-> exc, reason |-> "", reads |-> reads]

\* Mutant: the seven days compared with >=.
schedule_is_stale_inclusive(now, schedule) ==
    now - schedule >= ScheduleGraceDays * SecondsPerDay

\* now - schedule > grace_period, grace_period being seven days
schedule_is_stale(now, schedule) ==
    now - schedule > ScheduleGraceDays * SecondsPerDay

\* Mutant: expected < schedule.
no_fire_missed_strict(expected, schedule) == expected < schedule

\* expected <= schedule
no_fire_missed(expected, schedule) == expected <= schedule

\* Mutant: the one day compared with >=.
success_is_stale_inclusive(schedule, successful) ==
    schedule - successful >= SuccessGraceDays * SecondsPerDay

\* schedule - successful > grace_period, grace_period being one day
success_is_stale(schedule, successful) ==
    schedule - successful > SuccessGraceDays * SecondsPerDay

NotScheduled(delta) == "Has not been scheduled in " \o delta
NotScheduledExpected(delta) ==
    "Has not been scheduled in " \o delta \o " (but this might be expected)"
NotSuccessful(delta) == "Has not run successfully in " \o delta

\* The two checks of is_failed_cronjob, reached with both timestamps parsed
\* and the clock read.
cronjob_liveness(rec, schedule, successful, now) ==
    IF schedule_is_stale(now, schedule)
    THEN LET delta == naturaldelta(now - schedule) IN
         IF ~croniter_ok(rec["spec"]["schedule"])
         THEN Raise("CroniterBadCronError", <<now>>)
         ELSE IF no_fire_missed(get_prev(rec["spec"]["schedule"], now),
                                schedule)
         THEN Return(NotScheduledExpected(delta), <<now>>)
         ELSE Return(NotScheduled(delta), <<now>>)
    ELSE IF success_is_stale(schedule, successful)
    THEN Return(NotSuccessful(naturaldelta(now - successful)), <<now>>)
    ELSE Return("", <<now>>)

\* Mutant: the timestamps are parsed before the tests on suspend and on
\* the missing timestamps.
is_failed_cronjob_parses_first(rec, clk) ==
    LET status == rec["status"]
        has_schedule == "lastScheduleTime" \in DOMAIN status
        has_successful == "lastSuccessfulTime" \in DOMAIN status
    IN  IF has_schedule /\ ~status["lastScheduleTime"].wf
        THEN Raise("ValueError", <<>>)
        ELSE IF has_successful /\ ~status["lastSuccessfulTime"].wf
        THEN Raise("ValueError", <<>>)
        ELSE IF rec["spec"]["suspend"] THEN Return("", <<>>)
        ELSE IF ~has_schedule
        THEN IF has_successful
             THEN Return("Never scheduled (but has run successfully)", <<>>)
             ELSE Return("Never scheduled", <<>>)
        ELSE IF ~has_successful THEN Return("Never successfully ran", <<>>)
        ELSE cronjob_liveness(rec, status["lastScheduleTime"].t,
                              status["lastSuccessfulTime"].t,
                              get_current_datetime(clk))

is_failed_cronjob(rec, clk) ==
    LET status == rec["status"]
        has_schedule == "lastScheduleTime" \in DOMAIN status
        has_successful == "lastSuccessfulTime" \in DOMAIN status
    IN  IF rec["spec"]["suspend"] THEN Return("", <<>>)
        ELSE IF ~has_schedule
        THEN IF has_successful
             THEN Return("Never scheduled (but has run successfully)", <<>>)
             ELSE Return("Never scheduled", <<>>)
        ELSE IF ~has_successful THEN Return("Never successfully ran", <<>>)
        ELSE IF ~status["lastScheduleTime"].wf THEN Raise("ValueError", <<>>)
        ELSE IF ~status["lastSuccessfulTime"].wf THEN Raise("ValueError", <<>>)
        ELSE cronjob_liveness(rec, status["lastScheduleTime"].t,
                              status["lastSuccessfulTime"].t,
                              get_current_datetime(clk))

ReadyRatio(status) ==
    LET desired == Get(status, "replicas", 0)
        ready == Get(status, "readyReplicas", 0)
    IN  IF ready = desired THEN ""
        ELSE ToString(ready) \o "/" \o ToString(desired) \o " Ready"

is_failed_deployment(rec) == Return(ReadyRatio(rec["status"]), <<>>)

is_failed_statefulset(rec) == Return(ReadyRatio(rec["status"]), <<>>)

is_failed_pod(rec) ==
    LET phase == rec["status"]["phase"]
    IN  Return(IF phase \in {"Pending", "Unknown"} THEN phase ELSE "", <<>>)

\* get_owner_kinds: the kinds named by metadata.ownerReferences.
get_owner_kinds(rec) ==
    LET refs == Get(Get(rec, "metadata", EmptyDict), "ownerReferences", <<>>)
    IN  {refs[i]["kind"] : i \in {j \in DOMAIN refs : "kind" \in DOMAIN refs[j]}}

----------------------------------------------------------------------------
(* compare_snapshots *)

\* The collections of a snapshot, and those compare_resource is called on,
\* in the order of the calls.
Kinds == {"cronjobs", "deployments", "jobs", "pods", "statefulsets"}
Compared == <<"cronjobs", "deployments", "statefulsets", "pods">>
ComparedKinds == {Compared[i] : i \in DOMAIN Compared}

\* The is_failed argument of each compare_resource call.
is_failed(api_resource, rec, clk) ==
    IF api_resource = "cronjobs" THEN is_failed_cronjob(rec, clk)
    ELSE IF api_resource = "deployments" THEN is_failed_deployment(rec)
    ELSE IF api_resource = "statefulsets" THEN is_failed_statefulset(rec)
    ELSE is_failed_pod(rec)

\* Mutant: no call passes ignore_owned_by.
ignore_owned_by_unset(api_resource) == {}

\* The ignore_owned_by argument of each compare_resource call.
ignore_owned_by(api_resource) ==
    IF api_resource = "pods" THEN {"Job"} ELSE {}

\* The names compare_resource iterates over.
ResourceNames(api_resource) ==
    DOMAIN current[api_resource]
        \cup DOMAIN Get(previous, api_resource, EmptyDict)

\* The record the ownership test looks at: the current one, else the
\* previous one.
OwnershipItem(api_resource, name) ==
    IF name \in DOMAIN current[api_resource]
    THEN current[api_resource][name]
    ELSE previous[api_resource][name]

Suppressed(api_resource, name) ==
    /\ ignore_owned_by(api_resource) # {}
    /\ ignore_owned_by(api_resource)
         \cap get_owner_kinds(OwnershipItem(api_resource, name)) # {}

\* ", ".join(descriptors)
RECURSIVE Join(_)
Join(descriptors) ==
    IF Len(descriptors) = 0 THEN ""
    ELSE IF Len(descriptors) = 1 THEN descriptors[1]
    ELSE descriptors[1] \o ", " \o Join(Tail(descriptors))

\* Mutant: a missing previous start defaults to the epoch.
earlier_start_epoch(now) ==
    Get(Get(previous, "metadata", EmptyDict), "start", Iso(0))

\* previous.get("metadata", {}).get("start", now)
earlier_start(now) ==
    Get(Get(previous, "metadata", EmptyDict), "start", now)

\* The first statements of compare_snapshots: `data`, now, earlier, delta.
\* [exc, data].
Metadata ==
    IF "start" \notin DOMAIN Get(current, "metadata", EmptyDict)
    THEN [exc |-> "KeyError", data |-> EmptyDict]
    ELSE LET now == current["metadata"]["start"]
             earlier == earlier_start(now)
         IN  IF ~now.wf \/ ~earlier.wf
             THEN [exc |-> "ValueError", data |-> EmptyDict]
             ELSE [exc |-> "",
                   data |-> [cronjobs |-> EmptyDict,
                             deployments |-> EmptyDict,
                             jobs |-> EmptyDict,
                             pods |-> EmptyDict,
                             statefulsets |-> EmptyDict,
                             metadata |-> [now |-> now,
                                           delta |-> now.t - earlier.t]]]

\* if name not in previous.get(api_resource, {}): descriptors.append("New")
new_tag(api_resource, name) ==
    IF name \notin DOMAIN Get(previous, api_resource, EmptyDict)
    THEN <<"New">> ELSE <<>>

\* Mutant: the reason is appended only when nothing was appended before,
\* as if the test on the reason were an elif of the test for "New".
with_reason_unless_new(descriptors, reason) ==
    IF reason # "" /\ descriptors = <<>> THEN Append(descriptors, reason)
    ELSE descriptors

\* if reason := is_failed(...): descriptors.append(reason)
with_reason(descriptors, reason) ==
    IF reason # "" THEN Append(descriptors, reason) ELSE descriptors

\* Mutant: a deleted object is classified too, by its previous record.
Iteration_classifies_deleted(api_resource, name, clk) ==
    IF Suppressed(api_resource, name)
    THEN [skip |-> TRUE, descriptors |-> <<>>, called |-> FALSE,
          call |-> Return("", <<>>)]
    ELSE LET deleted == name \notin DOMAIN current[api_resource]
             call == is_failed(api_resource,
                               IF deleted THEN previous[api_resource][name]
                               ELSE current[api_resource][name], clk)
         IN  [skip |-> FALSE,
              descriptors |->
                  with_reason(IF deleted THEN <<"Deleted">>
                              ELSE new_tag(api_resource, name), call.reason),
              called |-> TRUE,
              call |-> call]

\* One iteration of compare_resource's loop, for `name`, with the clock at
\* clk: [skip, descriptors, called, call].
Iteration(api_resource, name, clk) ==
    IF Suppressed(api_resource, name)
    THEN [skip |-> TRUE, descriptors |-> <<>>, called |-> FALSE,
          call |-> Return("", <<>>)]
    ELSE IF name \notin DOMAIN current[api_resource]
    THEN [skip |-> FALSE, descriptors |-> <<"Deleted">>, called |-> FALSE,
          call |-> Return("", <<>>)]
    ELSE LET call == is_failed(api_resource, current[api_resource][name], clk)
         IN  [skip |-> FALSE,
              descriptors |-> with_reason(new_tag(api_resource, name),
                                          call.reason),
              called |-> TRUE,
              call |-> call]

Start ==
    /\ pc = "start"
    /\ LET m == Metadata IN
       IF m.exc # ""
       THEN /\ pc' = "error"
            /\ err' = m.exc
            /\ UNCHANGED <<data, todo>>
       ELSE /\ pc' = Compared[1]
            /\ data' = m.data
            /\ todo' = ResourceNames(Compared[1])
            /\ err' = ""
    /\ UNCHANGED <<current, previous, clock, ticks, calls>>

CompareStep ==
    /\ pc \in ComparedKinds
    /\ \E name \in todo :
         LET it == Iteration(pc, name, clock) IN
         /\ todo' = todo \ {name}
         /\ calls' = IF it.called THEN Put(calls, <<pc, name>>, it.call)
                     ELSE calls
         /\ IF it.called /\ it.call.exc # ""
            THEN /\ pc' = "error"
                 /\ err' = it.call.exc
                 /\ data' = data
            ELSE /\ pc' = pc
                 /\ err' = err
                 /\ data' = IF ~it.skip /\ it.descriptors # <<>>
                            THEN [data EXCEPT ![pc] =
                                     Put(@, name, Join(it.descriptors))]
                            ELSE data
    /\ UNCHANGED <<current, previous, clock, ticks>>

Position(api_resource) ==
    CHOOSE i \in DOMAIN Compared : Compared[i] = api_resource

NextResource ==
    /\ pc \in ComparedKinds
    /\ todo = {}
    /\ IF Position(pc) < Len(Compared)
       THEN /\ pc' = Compared[Position(pc) + 1]
            /\ todo' = ResourceNames(Compared[Position(pc) + 1])
       ELSE /\ pc' = "done"
            /\ todo' = {}
    /\ UNCHANGED <<current, previous, clock, ticks, data, err, calls>>

Tick ==
    /\ pc \notin {"done", "error"}
    /\ ticks < MaxTick
    /\ clock' = clock + 1
    /\ ticks' = ticks + 1
    /\ UNCHANGED <<current, previous, pc, todo, data, err, calls>>

Next == Start \/ CompareStep \/ NextResource \/ Tick

----------------------------------------------------------------------------
(* The inputs of the model *)

\* The clock when compare_snapshots is called: 1970-01-25T00:30:00Z.
T0 == (24 * SecondsPerDay) + (SecondsPerHour \div 2)

ScheduleGrace == ScheduleGraceDays * SecondsPerDay
SuccessGrace == SuccessGraceDays * SecondsPerDay

\* All dicts with keys among `names` and values in `records`.
Dicts(names, records) == UNION {[S -> records] : S \in SUBSET names}

CronJob(suspend, schedule, status) ==
    [spec |-> [schedule |-> schedule, suspend |-> suspend], status |-> status]

CronStatus(scheduleTimes, successfulTimes) ==
    {EmptyDict}
    \cup {[lastScheduleTime |-> s] : s \in scheduleTimes}
    \cup {[lastSuccessfulTime |-> u] : u \in successfulTimes}
    \cup {[lastScheduleTime |-> s, lastSuccessfulTime |-> u] :
            s \in scheduleTimes, u \in successfulTimes}

\* Last scheduled exactly seven days before T0 and successful then: healthy
\* while the clock reads T0, stale one second later.
BoundaryCronJob ==
    CronJob(FALSE, CronHourly,
            [lastScheduleTime |-> Iso(T0 - ScheduleGrace),
             lastSuccessfulTime |-> Iso(T0 - ScheduleGrace)])

\* A lastScheduleTime the ISO 8601 parser rejects.
MalformedCronJob ==
    CronJob(FALSE, CronHourly,
            [lastScheduleTime |-> BadIso, lastSuccessfulTime |-> Iso(T0)])

NeverScheduledCronJob == CronJob(FALSE, CronHourly, EmptyDict)

Workload(status) == [status |-> status]

OwnedBy(kind) == [ownerReferences |-> <<[kind |-> kind]>>]

Pod(phase, metadata) == [metadata |-> metadata, status |-> [phase |-> phase]]

DiffCronJobs == {BoundaryCronJob, MalformedCronJob, NeverScheduledCronJob}

DiffDeployments ==
    {Workload([replicas |-> 2, readyReplicas |-> 2]),
     [metadata |-> OwnedBy("Job"), status |-> [replicas |-> 1]]}

DiffStatefulSets == {Workload([replicas |-> 3, readyReplicas |-> 1])}

DiffPods ==
    {Pod("Running", [ownerReferences |-> <<>>]),
     Pod("Pending", OwnedBy("ReplicaSet")),
     Pod("Pending", OwnedBy("Job"))}

DiffJobs == {Workload([succeeded |-> 1])}

Snapshot(metadata, cronjobs, others) ==
    [metadata |-> metadata, cronjobs |-> cronjobs,
     deployments |-> others.deployments, statefulsets |-> others.statefulsets,
     pods |-> others.pods, jobs |-> others.jobs]

Others(deployments, statefulsets, pods, jobs) ==
    [deployments : deployments, statefulsets : statefulsets, pods : pods,
     jobs : jobs]

\* The current snapshot: every choice of objects, by kind.
CurrentOthers ==
    Others(Dicts({"d"}, DiffDeployments), Dicts({"s"}, DiffStatefulSets),
           Dicts({"p"}, DiffPods), Dicts({"j"}, DiffJobs))

\* The previous snapshot: any of the cronjobs, and of the other kinds either
\* nothing or every object (the pod owned by a Job or not).
PreviousOthers ==
    Others({EmptyDict}, {EmptyDict}, {EmptyDict}, {EmptyDict})
    \cup Others({[d |-> Workload([replicas |-> 2])]},
                {[s |-> Workload([replicas |-> 3])]},
                {[p |-> Pod("Running", [ownerReferences |-> <<>>])],
                 [p |-> Pod("Running", OwnedBy("Job"))]},
                {[j |-> Workload([active |-> 1])]})

Begin ==
    /\ clock = T0
    /\ ticks = 0
    /\ pc = "start"
    /\ todo = {}
    /\ data = EmptyDict
    /\ err = ""
    /\ calls = EmptyDict

\* Two snapshots of a small cluster; the previous one may be missing ({}).
Init ==
    /\ current \in {Snapshot([start |-> Iso(T0 - 60)], c, o) :
                      c \in Dicts({"a", "b"}, DiffCronJobs),
                      o \in CurrentOthers}
    /\ previous \in {EmptyDict}
         \cup {Snapshot([start |-> Iso(T0 - 360)], c, o) :
                 c \in Dicts({"a", "b"}, {BoundaryCronJob}),
                 o \in PreviousOthers}
    /\ Begin

Spec == Init /\ [][Next]_vars

----------------------------------------------------------------------------
(* The classification of one cronjob, over the records below *)

CronScheduleTimes ==
    {BadIso, Iso(0),
     Iso(T0 - ScheduleGrace - 1), Iso(T0 - ScheduleGrace),
     Iso(T0 - ScheduleGrace + 1),
     Iso(T0 - (20 * SecondsPerDay)), Iso(T0 - SecondsPerHour)}

CronSuccessfulTimes ==
    {BadIso,
     Iso(T0 - SecondsPerHour - SuccessGrace - 1),
     Iso(T0 - SecondsPerHour - SuccessGrace),
     Iso(T0 - (SecondsPerHour \div 2)),
     Iso(T0 - (30 * SecondsPerDay))}

CronJobRecords ==
    {CronJob(suspend, schedule, status) :
        suspend \in BOOLEAN,
        schedule \in CronExprs \cup {CronBad},
        status \in CronStatus(CronScheduleTimes, CronSuccessfulTimes)}

NoOthers ==
    [deployments |-> EmptyDict, statefulsets |-> EmptyDict,
     pods |-> EmptyDict, jobs |-> EmptyDict]

InitCron ==
    /\ current \in {Snapshot([start |-> Iso(T0 - 60)], [a |-> rec], NoOthers) :
                      rec \in CronJobRecords}
    /\ previous \in {EmptyDict,
                     Snapshot([start |-> Iso(T0 - 360)],
                              [a |-> BoundaryCronJob], NoOthers)}
    /\ Begin

SpecCron == InitCron /\ [][Next]_vars

----------------------------------------------------------------------------
(* The start timestamps, present, absent and malformed *)

CurrentMetadatas == {EmptyDict, [start |-> BadIso], [start |-> Iso(T0 - 60)]}

PreviousMetadatas ==
    {EmptyDict, [start |-> BadIso], [start |-> Iso(T0 - 360)],
     [start |-> Iso(T0 - 60)]}

\* A previous snapshot without the key "metadata".
WithoutMetadata(snapshot) ==
    [k \in DOMAIN snapshot \ {"metadata"} |-> snapshot[k]]

InitMeta ==
    /\ current \in {Snapshot(m, c, o) :
                      m \in CurrentMetadatas,
                      c \in Dicts({"a"}, {NeverScheduledCronJob}),
                      o \in CurrentOthers}
    /\ previous \in {EmptyDict}
         \cup {Snapshot(m, [a |-> BoundaryCronJob], o) :
                 m \in PreviousMetadatas, o \in PreviousOthers}
         \cup {WithoutMetadata(Snapshot(EmptyDict, EmptyDict, o)) :
                 o \in PreviousOthers}
    /\ Begin

SpecMeta == InitMeta /\ [][Next]_vars

----------------------------------------------------------------------------
(* Vocabulary of the properties *)

CurrentNames(kind) == DOMAIN current[kind]
PreviousNames(kind) == DOMAIN Get(previous, kind, EmptyDict)

\* The call has a result under construction (it has not raised).
Running == pc \notin {"start", "error"}

\* compare_resource has finished its iteration for `name` of `kind`.
Visited(kind, name) ==
    /\ Running
    /\ \/ pc = "done"
       \/ Position(kind) < Position(pc)
       \/ (kind = pc /\ name \notin todo)

\* The record lists an owner of kind "Job".
HasJobOwner(rec) ==
    /\ "metadata" \in DOMAIN rec
    /\ \E i \in DOMAIN rec["metadata"]["ownerReferences"] :
         rec["metadata"]["ownerReferences"][i]["kind"] = "Job"

\* The latest record of an object: the current one, else the previous one.
LatestRecord(kind, name) ==
    IF name \in CurrentNames(kind) THEN current[kind][name]
    ELSE previous[kind][name]

JobOwnedPod(kind, name) ==
    kind = "pods" /\ HasJobOwner(LatestRecord(kind, name))

Classified(kind, name) == <<kind, name>> \in DOMAIN calls

TaggedNew(reason) == IF reason = "" THEN "New" ELSE "New, " \o reason

----------------------------------------------------------------------------
(* C1 *)

\* C1 as stated: in the result, for every resource kind that is compared,
\* every name that is in previous[kind] and not in current[kind] is tagged
\* exactly "Deleted", and the kind's classifier was not applied to it.
C1_DeletedAlwaysTagged ==
    pc = "done" =>
        \A kind \in ComparedKinds :
            \A name \in PreviousNames(kind) \ CurrentNames(kind) :
                /\ name \in DOMAIN data[kind]
                /\ data[kind][name] = "Deleted"
                /\ ~Classified(kind, name)

\* C1, amended: for every resource kind that is compared, a name in
\* previous[kind] and not in current[kind] is never classified, and it is
\* tagged exactly "Deleted" unless it is a pod whose record lists an owner
\* of kind "Job", which is left out of the result.
C1_DeletedPrecedence ==
    \A kind \in ComparedKinds :
        \A name \in PreviousNames(kind) \ CurrentNames(kind) :
            Visited(kind, name) =>
                /\ ~Classified(kind, name)
                /\ IF JobOwnedPod(kind, name)
                   THEN name \notin DOMAIN data[kind]
                   ELSE /\ name \in DOMAIN data[kind]
                        /\ data[kind][name] = "Deleted"

\* A finished comparison in which the deployment d and the cronjob a, both
\* gone from the current snapshot, are tagged "Deleted".
C1_Witness ==
    /\ pc = "done"
    /\ "d" \in PreviousNames("deployments") \ CurrentNames("deployments")
    /\ "a" \in PreviousNames("cronjobs") \ CurrentNames("cronjobs")
    /\ data["deployments"] = [d |-> "Deleted"]
    /\ "a" \in DOMAIN data["cronjobs"]
    /\ data["cronjobs"]["a"] = "Deleted"

----------------------------------------------------------------------------
(* C2 *)

\* C2 as stated: a name in current[kind] and not in previous[kind] is tagged
\* "New", followed by the classifier's reason for its current record when
\* that reason is not empty.
C2_NewInEveryCase ==
    pc = "done" =>
        \A kind \in ComparedKinds :
            \A name \in CurrentNames(kind) \ PreviousNames(kind) :
                /\ Classified(kind, name)
                /\ name \in DOMAIN data[kind]
                /\ data[kind][name] = TaggedNew(calls[<<kind, name>>].reason)

\* C2, amended: a name in current[kind] and not in previous[kind] is tagged
\* "New", followed by the classifier's reason for its current record when
\* that reason is not empty, unless it is a pod whose record lists an owner
\* of kind "Job": such a pod is left out of the result and not classified.
C2_NewnessIndependence ==
    \A kind \in ComparedKinds :
        \A name \in CurrentNames(kind) \ PreviousNames(kind) :
            Visited(kind, name) =>
                IF JobOwnedPod(kind, name)
                THEN /\ name \notin DOMAIN data[kind]
                     /\ ~Classified(kind, name)
                ELSE /\ Classified(kind, name)
                     /\ calls[<<kind, name>>] =
                            is_failed(kind, current[kind][name],
                                      IF calls[<<kind, name>>].reads = <<>>
                                      THEN clock
                                      ELSE calls[<<kind, name>>].reads[1])
                     /\ name \in DOMAIN data[kind]
                     /\ data[kind][name] =
                            TaggedNew(calls[<<kind, name>>].reason)

\* A finished comparison with a new failing deployment, tagged with both,
\* and a new healthy pod, tagged "New" alone.
C2_Witness ==
    /\ pc = "done"
    /\ "d" \notin PreviousNames("deployments")
    /\ "p" \notin PreviousNames("pods")
    /\ data["deployments"] = [d |-> "New, 0/1 Ready"]
    /\ data["pods"] = [p |-> "New"]

----------------------------------------------------------------------------
(* C3 *)

\* The object changed or fails: it is gone, it is new, or its classifier
\* gave a reason.
Noteworthy(kind, name) ==
    \/ name \notin CurrentNames(kind)
    \/ name \notin PreviousNames(kind)
    \/ (Classified(kind, name) /\ calls[<<kind, name>>].reason # "")

\* C3: in the result, a pod whose record lists an owner of kind "Job" is
\* never among the pods, whether it is new, deleted or in a failing phase; a
\* pod without such an owner is there exactly when it is new, deleted or
\* Pending or Unknown; and an object of another compared kind is there
\* exactly when it is new, deleted or failing, whoever owns it.
C3_OwnershipSuppression ==
    pc = "done" =>
        /\ \A name \in CurrentNames("pods") \cup PreviousNames("pods") :
               IF HasJobOwner(LatestRecord("pods", name))
               THEN name \notin DOMAIN data["pods"]
               ELSE name \in DOMAIN data["pods"] <=>
                        \/ name \notin CurrentNames("pods")
                        \/ name \notin PreviousNames("pods")
                        \/ current["pods"][name]["status"]["phase"]
                               \in {"Pending", "Unknown"}
        /\ \A kind \in ComparedKinds \ {"pods"} :
               \A name \in CurrentNames(kind) \cup PreviousNames(kind) :
                   name \in DOMAIN data[kind] <=> Noteworthy(kind, name)

\* A finished comparison with a new Pending pod owned by a Job, left out,
\* and a failing deployment owned by a Job, reported.
C3_Witness ==
    /\ pc = "done"
    /\ "p" \in CurrentNames("pods") \ PreviousNames("pods")
    /\ current["pods"]["p"] = Pod("Pending", OwnedBy("Job"))
    /\ data["pods"] = EmptyDict
    /\ "d" \in CurrentNames("deployments")
    /\ HasJobOwner(current["deployments"]["d"])
    /\ "d" \in DOMAIN data["deployments"]

----------------------------------------------------------------------------
(* C8 *)

\* C8: a cronjob whose classification raises (a timestamp or a cron
\* expression that does not parse) does not end the comparison: the object
\* is recorded as unhealthy in its own slot of the result.
C8_FailureIsolation ==
    \A name \in CurrentNames("cronjobs") :
        (Classified("cronjobs", name) /\ calls[<<"cronjobs", name>>].exc # "")
            => /\ pc # "error"
               /\ name \in DOMAIN data["cronjobs"]

----------------------------------------------------------------------------
(* C10 *)

\* C10: two cronjobs of the current snapshot with identical records get
\* identical classifications within one comparison.
C10_OneClockReading ==
    \A a \in CurrentNames("cronjobs"), b \in CurrentNames("cronjobs") :
        (/\ Classified("cronjobs", a)
         /\ Classified("cronjobs", b)
         /\ current["cronjobs"][a] = current["cronjobs"][b])
            => /\ calls[<<"cronjobs", a>>].reason = calls[<<"cronjobs", b>>].reason
               /\ calls[<<"cronjobs", a>>].exc = calls[<<"cronjobs", b>>].exc

----------------------------------------------------------------------------
(* C9 *)

CurrentStartParses ==
    /\ "start" \in DOMAIN current["metadata"]
    /\ current["metadata"]["start"].wf

PreviousHasStart ==
    /\ "metadata" \in DOMAIN previous
    /\ "start" \in DOMAIN previous["metadata"]

\* C9: the result's delta is the current start minus the previous start;
\* when the previous snapshot is empty or has no start, the delta is zero
\* and the missing timestamp ends nothing: the comparison goes on to its
\* end; when the current start is absent or does not parse, the call raises
\* before any result exists.
C9_ElapsedTime ==
    /\ (Running /\ PreviousHasStart) =>
           data["metadata"]["delta"] =
               current["metadata"]["start"].t - previous["metadata"]["start"].t
    /\ (CurrentStartParses /\ ~PreviousHasStart) =>
           /\ pc # "error"
           /\ Running => data["metadata"]["delta"] = 0
           /\ pc # "done" => ENABLED (Start \/ CompareStep \/ NextResource)
    /\ ~CurrentStartParses =>
           /\ pc \in {"start", "error"}
           /\ data = EmptyDict
           /\ pc = "error" => err \in {"KeyError", "ValueError"}
           /\ pc = "start" => ENABLED Start

\* A finished comparison against an empty previous snapshot, with delta zero
\* and a finding.
C9_Witness ==
    /\ pc = "done"
    /\ previous = EmptyDict
    /\ data["metadata"]["delta"] = 0
    /\ data["deployments"] # EmptyDict

----------------------------------------------------------------------------
(* C4 to C7: the classification of a cronjob *)

CronCall(name) == calls[<<"cronjobs", name>>]
CronRecord(name) == current["cronjobs"][name]
Suspended(name) == CronRecord(name)["spec"]["suspend"]
HasSchedule(name) == "lastScheduleTime" \in DOMAIN CronRecord(name)["status"]
HasSuccessful(name) ==
    "lastSuccessfulTime" \in DOMAIN CronRecord(name)["status"]
ScheduleTime(name) == CronRecord(name)["status"]["lastScheduleTime"].t
SuccessfulTime(name) == CronRecord(name)["status"]["lastSuccessfulTime"].t

\* The cronjobs classified so far.
ClassifiedCronJobs ==
    {name \in CurrentNames("cronjobs") : Classified("cronjobs", name)}

\* Those whose classification reached the time-based checks: not suspended,
\* both timestamps present and well formed; the clock was read once, as Now.
TimedCronJobs ==
    {name \in ClassifiedCronJobs :
        /\ ~Suspended(name)
        /\ HasSchedule(name) /\ HasSuccessful(name)
        /\ CronRecord(name)["status"]["lastScheduleTime"].wf
        /\ CronRecord(name)["status"]["lastSuccessfulTime"].wf}

Now(name) == CronCall(name).reads[1]

SinceSchedule(name) == naturaldelta(Now(name) - ScheduleTime(name))

SchedulingAlarms(name) ==
    {NotScheduled(SinceSchedule(name)),
     NotScheduledExpected(SinceSchedule(name))}

\* C4: a suspended cronjob is healthy whatever its other fields; otherwise,
\* without lastScheduleTime the reason is "Never scheduled (but has run
\* successfully)" or "Never scheduled", as lastSuccessfulTime is present or
\* not; otherwise, without lastSuccessfulTime it is "Never successfully
\* ran".  In none of the three is a timestamp parsed or the clock read.
C4_FirstThreeOutcomes ==
    /\ \A name \in CurrentNames("cronjobs") :
           Visited("cronjobs", name) => Classified("cronjobs", name)
    /\ \A name \in ClassifiedCronJobs :
           /\ Suspended(name) => CronCall(name) = Return("", <<>>)
           /\ (~Suspended(name) /\ ~HasSchedule(name) /\ HasSuccessful(name))
                  => CronCall(name) =
                         Return("Never scheduled (but has run successfully)",
                                <<>>)
           /\ (~Suspended(name) /\ ~HasSchedule(name) /\ ~HasSuccessful(name))
                  => CronCall(name) = Return("Never scheduled", <<>>)
           /\ (~Suspended(name) /\ HasSchedule(name) /\ ~HasSuccessful(name))
                  => CronCall(name) = Return("Never successfully ran", <<>>)

\* A suspended cronjob with a malformed lastScheduleTime, classified healthy.
C4_Witness ==
    /\ pc = "done"
    /\ "a" \in ClassifiedCronJobs
    /\ Suspended("a")
    /\ HasSchedule("a")
    /\ ~CronRecord("a")["status"]["lastScheduleTime"].wf
    /\ CronRecord("a")["spec"]["schedule"] = CronBad
    /\ data["cronjobs"] = EmptyDict

\* t is a fire time of the cron expression.
Fires(expr, t) ==
    IF expr = CronHourly THEN t % SecondsPerHour = 0
    ELSE IF expr = CronWeekly
    THEN t % (7 * SecondsPerDay) = 3 * SecondsPerDay
    ELSE t \in {0, 31 * SecondsPerDay}

\* Some fire time lies after `from` and before `to`; the fire times of the
\* model fall on whole hours.
FiresBetween(expr, from, to) ==
    \E h \in (from \div SecondsPerHour) .. (to \div SecondsPerHour) :
        /\ from < h * SecondsPerHour
        /\ h * SecondsPerHour < to
        /\ Fires(expr, h * SecondsPerHour)

\* C5: when now - lastScheduleTime exceeds seven days (and the cron
\* expression parses), the reason is "Has not been scheduled in <elapsed>
\* (but this might be expected)" if the latest fire time before now is at or
\* before lastScheduleTime, that is if no fire time lies between the two,
\* and "Has not been scheduled in <elapsed>" otherwise.
C5_SchedulingLiveness ==
    \A name \in TimedCronJobs :
        LET expr == CronRecord(name)["spec"]["schedule"]
            expected == get_prev(expr, Now(name))
        IN  (/\ Now(name) - ScheduleTime(name) > 7 * SecondsPerDay
             /\ expr \in CronExprs)
                => /\ CronCall(name).exc = ""
                   /\ expected < Now(name)
                   /\ Fires(expr, expected)
                   /\ ~FiresBetween(expr, expected, Now(name))
                   /\ CronCall(name).reason =
                          IF expected <= ScheduleTime(name)
                          THEN NotScheduledExpected(SinceSchedule(name))
                          ELSE NotScheduled(SinceSchedule(name))

\* A monthly cronjob last scheduled at its latest fire time, the 1st at
\* midnight, 24 days ago: the annotated reason.
C5_Witness ==
    /\ pc = "done"
    /\ "a" \in TimedCronJobs
    /\ CronRecord("a")["spec"]["schedule"] = CronMonthly
    /\ ScheduleTime("a") = get_prev(CronMonthly, Now("a"))
    /\ CronCall("a").reason =
           "Has not been scheduled in 24 days (but this might be expected)"

\* C6 as stated: last scheduled seven days and a second ago, with a cron
\* expression whose latest fire time is before that, the reason is the
\* alarm "Has not been scheduled in ..." without the annotation; last
\* scheduled a second less than seven days ago, there is no scheduling alarm.
C6_BoundaryHardAlarm ==
    \A name \in TimedCronJobs :
        LET expr == CronRecord(name)["spec"]["schedule"] IN
        /\ (/\ ScheduleTime(name) = Now(name) - (7 * SecondsPerDay) - 1
            /\ expr \in CronExprs
            /\ get_prev(expr, Now(name)) < ScheduleTime(name))
               => CronCall(name).reason = NotScheduled(SinceSchedule(name))
        /\ ScheduleTime(name) = Now(name) - (7 * SecondsPerDay) + 1
               => CronCall(name).reason \notin SchedulingAlarms(name)

\* C6, amended: last scheduled seven days and a second ago, the reason is
\* "Has not been scheduled in 7 days (but this might be expected)" when the
\* cron expression's latest fire time is before (or at) the last scheduling,
\* and the alarm without the annotation when it is after; last scheduled
\* exactly seven days ago, or a second less, there is no scheduling alarm.
C6_GracePeriodBoundary ==
    \A name \in TimedCronJobs :
        LET expr == CronRecord(name)["spec"]["schedule"] IN
        /\ (/\ ScheduleTime(name) = Now(name) - (7 * SecondsPerDay) - 1
            /\ expr \in CronExprs)
               => CronCall(name).reason =
                      IF get_prev(expr, Now(name)) <= ScheduleTime(name)
                      THEN "Has not been scheduled in 7 days"
                               \o " (but this might be expected)"
                      ELSE "Has not been scheduled in 7 days"
        /\ ScheduleTime(name) \in {Now(name) - (7 * SecondsPerDay) + 1,
                                   Now(name) - (7 * SecondsPerDay)}
               => /\ CronCall(name).exc = ""
                  /\ CronCall(name).reason \notin SchedulingAlarms(name)

\* A monthly cronjob last scheduled seven days and a second ago: the
\* annotated reason.
C6_Witness ==
    /\ pc = "done"
    /\ "a" \in TimedCronJobs
    /\ ScheduleTime("a") = Now("a") - (7 * SecondsPerDay) - 1
    /\ CronRecord("a")["spec"]["schedule"] = CronMonthly
    /\ get_prev(CronMonthly, Now("a")) < ScheduleTime("a")
    /\ CronCall("a").reason =
           "Has not been scheduled in 7 days (but this might be expected)"

SuccessReason(name) ==
    NotSuccessful(naturaldelta(Now(name) - SuccessfulTime(name)))

\* C7 as stated: whenever lastScheduleTime - lastSuccessfulTime exceeds one
\* day the classification is "Has not run successfully in <elapsed since
\* the last success>", also when the seven days of the scheduling check are
\* exceeded; the record is healthy only if neither threshold is exceeded.
C7_SuccessAlwaysFlagged ==
    \A name \in TimedCronJobs :
        CronCall(name).exc = "" =>
            /\ ScheduleTime(name) - SuccessfulTime(name) > SecondsPerDay
                   => CronCall(name).reason = SuccessReason(name)
            /\ CronCall(name).reason = ""
                   => /\ Now(name) - ScheduleTime(name) <= 7 * SecondsPerDay
                      /\ ScheduleTime(name) - SuccessfulTime(name)
                             <= SecondsPerDay

\* C7, amended: the success check is reached only when the seven days of the
\* scheduling check are not exceeded: then, whenever lastScheduleTime -
\* lastSuccessfulTime exceeds one day, the classification is "Has not run
\* successfully in <elapsed since the last success>"; when the seven days
\* are exceeded the classification is the scheduling reason alone; the
\* record is healthy exactly if neither threshold is exceeded.
C7_SuccessLiveness ==
    \A name \in TimedCronJobs :
        CronCall(name).exc = "" =>
            /\ (/\ Now(name) - ScheduleTime(name) <= 7 * SecondsPerDay
                /\ ScheduleTime(name) - SuccessfulTime(name) > SecondsPerDay)
                   => CronCall(name).reason = SuccessReason(name)
            /\ Now(name) - ScheduleTime(name) > 7 * SecondsPerDay
                   => CronCall(name).reason \in SchedulingAlarms(name)
            /\ CronCall(name).reason = ""
                   <=> /\ Now(name) - ScheduleTime(name) <= 7 * SecondsPerDay
                       /\ ScheduleTime(name) - SuccessfulTime(name)
                              <= SecondsPerDay

\* A cronjob scheduled an hour ago whose last success is a day and a second
\* older than that: flagged.
C7_Witness ==
    /\ pc = "done"
    /\ "a" \in TimedCronJobs
    /\ Now("a") - ScheduleTime("a") <= 7 * SecondsPerDay
    /\ ScheduleTime("a") - SuccessfulTime("a") = SecondsPerDay + 1
    /\ CronCall("a").reason = "Has not run successfully in a day"
    /\ "a" \in DOMAIN data["cronjobs"]

====
